---- MODULE Spec2Model ----
(***************************************************************************)
(* A model of the three PF1 data-cleaner scripts:                          *)
(*   repair_pf1_character_resistances_packages.py  (the "resist" tool)     *)
(*   repair_pf1_packages.py                        (the "packages" tool)   *)
(*   repair_pf_eidolon_forms_identifiers.py        (the "eidolon" tool)    *)
(*                                                                         *)
(* Text is a sequence of one-character strings, so that trimming,          *)
(* splitting, concatenation and the plus-number test are computed rather   *)
(* than assumed.  A JSON value is a tagged record:                         *)
(*   [t |-> "null"]            [t |-> "str",  s |-> <<chars>>]             *)
(*   [t |-> "int", n |-> 5]    [t |-> "bool", b |-> TRUE]                  *)
(*   [t |-> "list", l |-> <<values>>]                                      *)
(*   [t |-> "dict", d |-> [key |-> value]]                                 *)
(***************************************************************************)
EXTENDS Integers, Sequences, FiniteSets, TLC

VARIABLES
    \* ---- Shape Normalizer (one in-memory document, repaired repeatedly)
    tool,       \* which script's repair function is applied
    doc,        \* the document after the calls made so far
    before,     \* the document as it was when the last call started
    mutated,    \* the flag returned by the last call
    nchanges,   \* the length of the change log returned by the last call
    raised,     \* TRUE once a call ended with an exception
    calls,      \* number of calls made
    \* ---- file streaming (process_db_file / process_file)
    input,      \* the lines of the source file
    pos,        \* number of lines consumed
    output,     \* the strings written to the output file, in order
    only_npc,   \* the packages tool's --only-npc flag
    patched,    \* the patched-document counter
    report,     \* the line numbers of the report lines collected
    \* ---- main()
    pc,         \* position of the run
    fs,         \* the file system: what each existing path holds
    opts,       \* the parsed command line
    todo,       \* target files still to process
    status      \* the exit status, -1 while running

nvars == <<tool, doc, before, mutated, nchanges, raised, calls>>
fvars == <<input, pos, output, only_npc, patched, report>>
mvars == <<pc, fs, opts, todo, status>>
vars == <<nvars, fvars, mvars>>

----------------------------------------------------------------------------
(* JSON values *)

JNull == [t |-> "null"]
JStr(s) == [t |-> "str", s |-> s]
JInt(n) == [t |-> "int", n |-> n]
JBool(b) == [t |-> "bool", b |-> b]
JList(l) == [t |-> "list", l |-> l]
JDict(d) == [t |-> "dict", d |-> d]
EmptyMap == [k \in {} |-> JNull]
EmptyDict == JDict(EmptyMap)

IsDict(v) == v.t = "dict"
IsList(v) == v.t = "list"
IsStr(v) == v.t = "str"

Put(d, k, v) == [x \in (DOMAIN d) \cup {k} |-> IF x = k THEN v ELSE d[x]]
\* dict.get(k): None when the key is missing
DGet(d, k) == IF k \in DOMAIN d THEN d[k] ELSE JNull

----------------------------------------------------------------------------
(* Text *)

\* str.strip() with no argument removes whitespace
IsSpace(c) == c \in {" ", "\t"}

RECURSIVE LStrip(_)
LStrip(s) == IF s # <<>> /\ IsSpace(Head(s)) THEN LStrip(Tail(s)) ELSE s

RECURSIVE RStrip(_)
RStrip(s) ==
    IF s # <<>> /\ IsSpace(s[Len(s)]) THEN RStrip(SubSeq(s, 1, Len(s) - 1)) ELSE s

Strip(s) == RStrip(LStrip(s))

\* the characters int() reads as a decimal digit
AsciiDigit == {"0", "1", "2", "3", "4", "5", "6", "7", "8", "9"}
\* str.isdigit() is also true of digits int() cannot read, such as the
\* superscript two (written "sup2" here)
IsDigitChar(c) == c \in AsciiDigit \cup {"sup2"}

DigitVal(c) ==
    CASE c = "0" -> 0 [] c = "1" -> 1 [] c = "2" -> 2 [] c = "3" -> 3
      [] c = "4" -> 4 [] c = "5" -> 5 [] c = "6" -> 6 [] c = "7" -> 7
      [] c = "8" -> 8 [] c = "9" -> 9

\* s.isdigit(): non-empty and every character a digit
IsDigitStr(s) == s # <<>> /\ \A i \in 1..Len(s) : IsDigitChar(s[i])

\* the test of lines 57-58: s = v.strip(); s.startswith("+") and s[1:].isdigit()
IsPlusNumber(s) ==
    LET st == Strip(s)
    IN  st # <<>> /\ Head(st) = "+" /\ IsDigitStr(Tail(st))

\* int(s) succeeds on ASCII digits only
IntParses(s) == s # <<>> /\ \A i \in 1..Len(s) : s[i] \in AsciiDigit

RECURSIVE IntOf(_)
IntOf(s) ==
    IF s = <<>> THEN 0
    ELSE 10 * IntOf(SubSeq(s, 1, Len(s) - 1)) + DigitVal(s[Len(s)])

IsSep(c) == c \in {";", ","}

\* SPLIT_RE.split(s): the pieces between maximal runs of ; and ,
RECURSIVE SplitFrom(_, _, _, _)
SplitFrom(s, cur, acc, inRun) ==
    IF s = <<>> THEN Append(acc, cur)
    ELSE IF IsSep(Head(s))
         THEN IF inRun THEN SplitFrom(Tail(s), cur, acc, TRUE)
              ELSE SplitFrom(Tail(s), <<>>, Append(acc, cur), TRUE)
         ELSE SplitFrom(Tail(s), Append(cur, Head(s)), acc, FALSE)

SPLIT_RE_split(s) == SplitFrom(s, <<>>, <<>>, FALSE)

RECURSIVE MapStrip(_)
MapStrip(toks) ==
    IF toks = <<>> THEN <<>> ELSE <<Strip(Head(toks))>> \o MapStrip(Tail(toks))

NonEmpty(s) == s # <<>>

\* str_to_list: the trimmed, non-empty tokens, as a list of text
str_to_list(s) == SelectSeq(MapStrip(SPLIT_RE_split(s)), NonEmpty)

RECURSIVE StrsToJ(_)
StrsToJ(toks) ==
    IF toks = <<>> THEN <<>> ELSE <<JStr(Head(toks))>> \o StrsToJ(Tail(toks))

----------------------------------------------------------------------------
(* Shared path helpers (both normalizer scripts define them identically) *)

\* get(d, path, default=None)
RECURSIVE get(_, _)
get(d, path) ==
    IF path = <<>> THEN d
    ELSE IF ~IsDict(d) \/ Head(path) \notin DOMAIN d.d THEN JNull
         ELSE get(d.d[Head(path)], Tail(path))

\* ensure_dict_path(d, path): every step of the path is made a dict; the
\* result is the updated d
RECURSIVE ensure_dict_path(_, _)
ensure_dict_path(d, path) ==
    IF path = <<>> THEN d
    ELSE LET k == Head(path)
             child == IF k \notin DOMAIN d.d \/ ~IsDict(d.d[k])
                      THEN EmptyDict ELSE d.d[k]
         IN  JDict(Put(d.d, k, ensure_dict_path(child, Tail(path))))

\* doc with doc["system"]["traits"] replaced (traits is an alias of that dict)
WithTraits(d, traits) ==
    JDict(Put(d.d, "system", JDict(Put(d.d["system"].d, "traits", traits))))

----------------------------------------------------------------------------
(* Numeric-string pass *)

RECURSIVE SumOver(_, _)
SumOver(f, S) ==
    IF S = {} THEN 0
    ELSE LET x == CHOOSE y \in S : TRUE IN f[x] + SumOver(f, S \ {x})

\* One element v of a dict or list visited by convert_plus_number_strings:
\* a plus-number string is replaced by int(s[1:]), which raises ValueError
\* when s[1:] passes isdigit() but is not ASCII; anything else is walked.
\* Result: [v, n, raised], n the number of replacements made.
RECURSIVE convert_plus_number_strings(_)
\* as convert_element, but testing v itself rather than v.strip()
convert_element_unstripped(v) ==
    IF IsStr(v)
    THEN IF v.s # <<>> /\ Head(v.s) = "+" /\ IsDigitStr(Tail(v.s))
         THEN IF IntParses(Tail(v.s))
              THEN [v |-> JInt(IntOf(Tail(v.s))), n |-> 1, raised |-> FALSE]
              ELSE [v |-> v, n |-> 0, raised |-> TRUE]
         ELSE [v |-> v, n |-> 0, raised |-> FALSE]
    ELSE convert_plus_number_strings(v)

convert_element(v) ==
    IF IsStr(v)
    THEN IF IsPlusNumber(v.s)
         THEN LET digits == Tail(Strip(v.s))
              IN  IF IntParses(digits)
                  THEN [v |-> JInt(IntOf(digits)), n |-> 1, raised |-> FALSE]
                  ELSE [v |-> v, n |-> 0, raised |-> TRUE]
         ELSE [v |-> v, n |-> 0, raised |-> FALSE]
    ELSE convert_plus_number_strings(v)

convert_plus_number_strings(obj) ==
    IF IsDict(obj)
    THEN LET sub == [k \in DOMAIN obj.d |-> convert_element(obj.d[k])]
         IN  [v |-> JDict([k \in DOMAIN obj.d |-> sub[k].v]),
              n |-> SumOver([k \in DOMAIN obj.d |-> sub[k].n], DOMAIN obj.d),
              raised |-> \E k \in DOMAIN obj.d : sub[k].raised]
    ELSE IF IsList(obj)
    THEN LET sub == [i \in 1..Len(obj.l) |-> convert_element(obj.l[i])]
         IN  [v |-> JList([i \in 1..Len(obj.l) |-> sub[i].v]),
              n |-> SumOver([i \in 1..Len(obj.l) |-> sub[i].n], 1..Len(obj.l)),
              raised |-> \E i \in 1..Len(obj.l) : sub[i].raised]
    ELSE [v |-> obj, n |-> 0, raised |-> FALSE]

----------------------------------------------------------------------------
(* Trait repair of the resist tool *)

\* [x for x in v if isinstance(x, str) and x.strip()]
KeepsTraitToken(x) == IsStr(x) /\ Strip(x.s) # <<>>
cleaned_list(l) == SelectSeq(l, KeepsTraitToken)

\* lines 95-117: trait["value"] made a list.  Result: [trait, n].
ensure_value(trait) ==
    LET v == DGet(trait.d, "value")
    IN  IF v.t = "null"
        THEN [trait |-> JDict(Put(trait.d, "value", JList(<<>>))), n |-> 1]
        ELSE IF IsStr(v)
        THEN [trait |-> JDict(Put(trait.d, "value", JList(StrsToJ(str_to_list(v.s))))),
              n |-> 1]
        ELSE IF IsList(v)
        THEN IF cleaned_list(v.l) # v.l
             THEN [trait |-> JDict(Put(trait.d, "value", JList(cleaned_list(v.l)))),
                   n |-> 1]
             ELSE [trait |-> trait, n |-> 0]
        ELSE [trait |-> JDict(Put(trait.d, "value", JList(<<>>))), n |-> 1]

\* as ensure_field, but a list is stored and logged as cleaned whether or
\* not the cleaning removed anything
ensure_field_unguarded(tn, field) ==
    LET val == DGet(tn.trait.d, field)
    IN  IF IsStr(val)
        THEN [trait |-> JDict(Put(tn.trait.d, field, JList(StrsToJ(str_to_list(val.s))))),
              n |-> tn.n + 1]
        ELSE IF IsList(val)
        THEN [trait |-> JDict(Put(tn.trait.d, field, JList(cleaned_list(val.l)))),
              n |-> tn.n + 1]
        ELSE tn

\* lines 120-133 (and lines 112-128 of the packages tool): one of custom,
\* customTotal made a list when it is a string, cleaned when it is a list
ensure_field(tn, field) ==
    LET val == DGet(tn.trait.d, field)
    IN  IF IsStr(val)
        THEN [trait |-> JDict(Put(tn.trait.d, field, JList(StrsToJ(str_to_list(val.s))))),
              n |-> tn.n + 1]
        ELSE IF IsList(val) /\ cleaned_list(val.l) # val.l
        THEN [trait |-> JDict(Put(tn.trait.d, field, JList(cleaned_list(val.l)))),
              n |-> tn.n + 1]
        ELSE tn

\* ensure_trait_arrays(traits, key, changes).  tn is [traits, n]: the traits
\* dict and the length of the change log so far.
ensure_trait_arrays(tn, key) ==
    LET created == key \notin DOMAIN tn.traits.d \/ ~IsDict(tn.traits.d[key])
        trait0 == IF created THEN EmptyDict ELSE tn.traits.d[key]
        r1 == ensure_value(trait0)
        r2 == ensure_field(r1, "custom")
        r3 == ensure_field(r2, "customTotal")
    IN  [traits |-> JDict(Put(tn.traits.d, key, r3.trait)),
         n |-> tn.n + (IF created THEN 1 ELSE 0) + r3.n]

IsNull(x) == x.t = "null"
NotNull(x) == x.t # "null"

\* lines 163-170 (lines 97-104 of the packages tool): nulls removed from
\* system.traits.languages.value.  Result: [doc, n].
purge_language_nulls(d) ==
    LET lang_val == get(d, <<"system", "traits", "languages", "value">>)
    IN  IF IsList(lang_val) /\ Len(SelectSeq(lang_val.l, IsNull)) > 0
        THEN LET e == ensure_dict_path(d, <<"system", "traits", "languages">>)
                 lang == e.d["system"].d["traits"].d["languages"]
                 lang2 == JDict(Put(lang.d, "value", JList(SelectSeq(lang_val.l, NotNull))))
             IN  [doc |-> WithTraits(e, JDict(Put(e.d["system"].d["traits"].d,
                                                   "languages", lang2))),
                  n |-> 1]
        ELSE [doc |-> d, n |-> 0]

\* the keys the resist tool repairs (line 158)
ResistKeys == <<"eres", "dr", "dv">>

RECURSIVE ensure_all(_, _)
ensure_all(tn, keys) ==
    IF keys = <<>> THEN tn
    ELSE ensure_all(ensure_trait_arrays(tn, Head(keys)), Tail(keys))

\* repair_actor_doc(doc).  Result: [doc, changed, n, raised]; changed is the
\* returned flag, n the length of the returned change log.
repair_actor_doc(d) ==
    LET traits == get(d, <<"system", "traits">>)
    IN  IF ~IsDict(traits)
        THEN LET c == convert_plus_number_strings(d)
             IN  [doc |-> c.v, changed |-> c.n > 0,
                  n |-> IF c.n > 0 THEN 1 ELSE 0, raised |-> c.raised]
        ELSE LET t == ensure_all([traits |-> traits, n |-> 0], ResistKeys)
                 d1 == WithTraits(d, t.traits)
                 p == purge_language_nulls(d1)
                 c == convert_plus_number_strings(p.doc)
                 n == t.n + p.n + (IF c.n > 0 THEN 1 ELSE 0)
             IN  [doc |-> c.v, changed |-> n > 0, n |-> n, raised |-> c.raised]

\* as should_patch_doc, but for npc documents only
should_patch_doc_npc_only(d) ==
    LET t == DGet(d.d, "type")
    IN  IsStr(t) /\ t.s = <<"n", "p", "c">>

\* should_patch_doc(doc)
should_patch_doc(d) ==
    LET t == DGet(d.d, "type")
    IN  IsStr(t) /\ t.s \in {<<"c", "h", "a", "r", "a", "c", "t", "e", "r">>,
                             <<"n", "p", "c">>}

----------------------------------------------------------------------------
(* Trait repair of the packages tool *)

TRAIT_KEYS == <<"di", "dv", "ci", "languages", "armorProf", "weaponProf">>
\* the keys whose value is split when it is a separated string (line 132)
SplitValueKeys == <<"di", "dv", "ci">>

\* lines 108-128: custom and customTotal of one configured key
fix_custom(tn, k) ==
    LET trait == DGet(tn.traits.d, k)
    IN  IF ~IsDict(trait) THEN tn
        ELSE LET r == ensure_field(ensure_field([trait |-> trait, n |-> 0], "custom"),
                                   "customTotal")
             IN  [traits |-> JDict(Put(tn.traits.d, k, r.trait)), n |-> tn.n + r.n]

HasSep(s) == \E i \in 1..Len(s) : IsSep(s[i])

\* lines 133-141: value split when it is a string holding a separator
split_value(tn, k) ==
    LET trait == DGet(tn.traits.d, k)
        v == IF IsDict(trait) THEN DGet(trait.d, "value") ELSE JNull
    IN  IF IsDict(trait) /\ IsStr(v) /\ HasSep(v.s)
        THEN [traits |-> JDict(Put(tn.traits.d, k,
                            JDict(Put(trait.d, "value", JList(StrsToJ(str_to_list(v.s))))))),
              n |-> tn.n + 1]
        ELSE tn

RECURSIVE fix_custom_all(_, _)
fix_custom_all(tn, keys) ==
    IF keys = <<>> THEN tn ELSE fix_custom_all(fix_custom(tn, Head(keys)), Tail(keys))

RECURSIVE split_value_all(_, _)
split_value_all(tn, keys) ==
    IF keys = <<>> THEN tn ELSE split_value_all(split_value(tn, Head(keys)), Tail(keys))

\* repair_doc(doc).  Result: [doc, changed, n, raised].
repair_doc(d) ==
    LET traits == get(d, <<"system", "traits">>)
    IN  IF ~IsDict(traits)
        THEN LET c == convert_plus_number_strings(d)
             IN  [doc |-> c.v, changed |-> c.n > 0, n |-> c.n, raised |-> c.raised]
        ELSE LET p == purge_language_nulls(d)
                 t0 == [traits |-> get(p.doc, <<"system", "traits">>), n |-> p.n]
                 t1 == fix_custom_all(t0, TRAIT_KEYS)
                 t2 == split_value_all(t1, SplitValueKeys)
                 c == convert_plus_number_strings(WithTraits(p.doc, t2.traits))
                 n == t2.n + c.n
             IN  [doc |-> c.v, changed |-> n > 0, n |-> n, raised |-> c.raised]

----------------------------------------------------------------------------
(* Identifier Deduplicator (eidolon tool) *)

\* is_actor_doc(doc)
is_actor_doc(d) ==
    LET t == DGet(d.d, "type")
    IN  /\ IsStr(t) /\ t.s \in {<<"c", "h", "a", "r", "a", "c", "t", "e", "r">>,
                                <<"n", "p", "c">>}
        /\ IsList(DGet(d.d, "items"))

\* get_item_tag(item): the trimmed tag, or None
get_item_tag(item) ==
    LET sysd == DGet(item.d, "system")
        t == IF IsDict(sysd) THEN DGet(sysd.d, "tag") ELSE JNull
    IN  IF IsStr(t) /\ Strip(t.s) # <<>> THEN JStr(Strip(t.s)) ELSE JNull

\* set_item_tag(item, new_tag): the tag is stored as given, useCustomTag set
set_item_tag(item, new_tag) ==
    LET sysd == IF "system" \in DOMAIN item.d /\ IsDict(item.d["system"])
                THEN item.d["system"] ELSE EmptyDict
    IN  JDict(Put(item.d, "system",
              JDict(Put(Put(sysd.d, "tag", JStr(new_tag)), "useCustomTag", JBool(TRUE)))))

\* the raw system.actions list when iter_actions(item) walks one, else <<>>;
\* iter_actions yields its dict elements
actions_of(item) ==
    LET sysd == DGet(item.d, "system")
        acts == IF IsDict(sysd) THEN DGet(sysd.d, "actions") ELSE JNull
    IN  IF IsList(acts) THEN acts.l ELSE <<>>

\* get_action_tag(action)
get_action_tag(action) ==
    LET t == DGet(action.d, "tag")
    IN  IF IsStr(t) /\ Strip(t.s) # <<>> THEN JStr(Strip(t.s)) ELSE JNull

\* set_action_tag(action, new_tag)
set_action_tag(action, new_tag) == JDict(Put(action.d, "tag", JStr(new_tag)))

DigitChar(n) == CHOOSE c \in AsciiDigit : DigitVal(c) = n

\* str(i) for i >= 0
RECURSIVE ToStr(_)
ToStr(i) ==
    IF i < 10 THEN <<DigitChar(i)>> ELSE ToStr(i \div 10) \o <<DigitChar(i % 10)>>

\* lines 62-65: the first cand_i, i = 2, 3, ..., not in seen
RECURSIVE first_free(_, _, _)
first_free(cand, i, seen) ==
    IF (cand \o <<"_">> \o ToStr(i)) \in seen
    THEN first_free(cand, i + 1, seen)
    ELSE cand \o <<"_">> \o ToStr(i)

\* as unique_tag, but the candidate is returned without a look at seen
unique_tag_unchecked(base, suffix, seen) == base \o suffix

\* unique_tag(base, suffix, seen)
unique_tag(base, suffix, seen) ==
    LET cand == base \o suffix
    IN  IF cand \notin seen THEN cand ELSE first_free(cand, 2, seen)

\* lines 111-113 / 136-138: the _id when it is a non-empty string
id_or(x, fallback) ==
    LET i == DGet(x.d, "_id")
    IN  IF IsStr(i) /\ i.s # <<>> THEN i.s ELSE fallback

NOID == <<"n", "o", "i", "d">>
NOACTID == <<"n", "o", "a", "c", "t", "i", "d">>

\* one iteration of pass 1 (lines 98-121) on items[i].
\* st = [items, seen, tags, n]: the item list, the claimed set, the list
\* item_tags_in_actor and the length of the change log.
pass1_step(st, i) ==
    LET it == st.items[i]
        tag == IF IsDict(it) THEN get_item_tag(it) ELSE JNull
    IN  IF ~IsDict(it) \/ tag.t = "null" THEN st
        ELSE IF tag.s \notin st.seen
        THEN [st EXCEPT !.seen = @ \cup {tag.s}, !.tags = Append(@, tag.s)]
        ELSE LET new_tag == unique_tag(tag.s, <<"_">> \o id_or(it, NOID), st.seen)
             IN  [items |-> [st.items EXCEPT ![i] = set_item_tag(it, new_tag)],
                  seen |-> st.seen \cup {new_tag},
                  tags |-> Append(st.tags, new_tag),
                  n |-> st.n + 1]

RECURSIVE pass1(_, _)
pass1(st, i) == IF i > Len(st.items) THEN st ELSE pass1(pass1_step(st, i), i + 1)

\* item with element j of its system.actions list replaced
with_action(item, j, act) ==
    LET sysd == item.d["system"]
    IN  JDict(Put(item.d, "system",
              JDict(Put(sysd.d, "actions",
                        JList([sysd.d["actions"].l EXCEPT ![j] = act])))))

\* one iteration of the inner loop of pass 2 (lines 130-146) on action j of
\* items[i]
pass2_step(st, i, j) ==
    LET act == actions_of(st.items[i])[j]
        a_tag == IF IsDict(act) THEN get_action_tag(act) ELSE JNull
    IN  IF ~IsDict(act) \/ a_tag.t = "null" THEN st
        ELSE IF a_tag.s \in st.seen
        THEN LET new_a_tag == unique_tag(a_tag.s,
                                  <<"_", "a", "c", "t", "_">> \o id_or(act, NOACTID),
                                  st.seen)
             IN  [st EXCEPT
                    !.items[i] = with_action(@, j, set_action_tag(act, new_a_tag)),
                    !.seen = @ \cup {new_a_tag},
                    !.n = @ + 1]
        ELSE [st EXCEPT !.seen = @ \cup {a_tag.s}]

RECURSIVE pass2_actions(_, _, _)
pass2_actions(st, i, j) ==
    IF j > Len(actions_of(st.items[i])) THEN st
    ELSE pass2_actions(pass2_step(st, i, j), i, j + 1)

RECURSIVE pass2(_, _)
pass2(st, i) ==
    IF i > Len(st.items) THEN st
    ELSE IF ~IsDict(st.items[i]) THEN pass2(st, i + 1)
    ELSE pass2(pass2_actions(st, i, 1), i + 1)

\* get_resources_dict(actor)
get_resources_dict(actor) ==
    LET sysd == DGet(actor.d, "system")
        res == IF IsDict(sysd) THEN DGet(sysd.d, "resources") ELSE JNull
    IN  IF IsDict(res) THEN res ELSE JNull

\* the elements of a sequence
Range(q) == {q[i] : i \in 1..Len(q)}

\* line 157: the resource keys that are in set(item_tags_in_actor)
to_delete(res, item_tags) == {k \in DOMAIN res.d : k \in Range(item_tags)}

\* pass 3 (lines 153-162).  Result: [actor, n].
pass3(actor, item_tags, n) ==
    LET res == get_resources_dict(actor)
    IN  IF IsDict(res) /\ to_delete(res, item_tags) # {}
        THEN LET gone == to_delete(res, item_tags)
                 res2 == JDict([k \in (DOMAIN res.d) \ gone |-> res.d[k]])
             IN  [actor |-> JDict(Put(actor.d, "system",
                                JDict(Put(actor.d["system"].d, "resources", res2)))),
                  n |-> n + Cardinality(gone)]
        ELSE [actor |-> actor, n |-> n]

\* fix_actor_identifiers_and_resources(actor).  Result: [doc, changed, n, raised].
fix_actor_identifiers_and_resources(actor) ==
    LET items == DGet(actor.d, "items")
    IN  IF ~IsList(items)
        THEN [doc |-> actor, changed |-> FALSE, n |-> 0, raised |-> FALSE]
        ELSE LET s1 == pass1([items |-> items.l, seen |-> {}, tags |-> <<>>, n |-> 0], 1)
                 s2 == pass2([items |-> s1.items, seen |-> s1.seen, n |-> s1.n], 1)
                 r == pass3(JDict(Put(actor.d, "items", JList(s2.items))), s1.tags, s2.n)
             IN  [doc |-> r.actor, changed |-> r.n > 0, n |-> r.n, raised |-> FALSE]

----------------------------------------------------------------------------
(* The documents the model is run on *)

\* how often one document is handed to its repair function
MaxCalls == 2

Absent == [t |-> "absent"]

\* a dict from a record of optional entries: the Absent ones are left out
Mk(r) == JDict([k \in {x \in DOMAIN r : r[x] # Absent} |-> r[k]])

NPC == JStr(<<"n", "p", "c">>)
CHARACTER == JStr(<<"c", "h", "a", "r", "a", "c", "t", "e", "r">>)
LOOT == JStr(<<"l", "o", "o", "t">>)

\* what a trait entry's value may hold
ValuePool ==
    { Absent, JNull, JInt(3),
      JStr(<<"a", ";", " ", "b">>),
      JStr(<<"+", "5">>),
      JStr(<<" ", "+", "5", ",", ";", "a", ";">>),
      JList(<<>>),
      JList(<<JStr(<<"a">>), JStr(<<"b">>)>>),
      JList(<<JStr(<<"+", "5">>), JStr(<<"a">>)>>),
      JList(<<JNull, JStr(<<"a">>), JStr(<<" ">>), JInt(1)>>) }

\* what custom / customTotal may hold
CustomPool ==
    { Absent, JNull,
      JStr(<<"a", ",", "b">>),
      JStr(<<"+", "7", ";">>),
      JList(<<JStr(<<"a">>), JStr(<<>>)>>) }

TraitPool ==
    { Absent, JStr(<<"a">>) }
    \cup { Mk([value |-> v, custom |-> c, customTotal |-> Absent]) :
             v \in ValuePool, c \in CustomPool }
    \cup { Mk([value |-> JList(<<>>), custom |-> Absent, customTotal |-> c]) :
             c \in CustomPool \ {Absent} }

SmallTraitPool ==
    { Absent,
      Mk([value |-> JList(<<JStr(<<"a">>)>>)]),
      Mk([value |-> JStr(<<"a", ",", "+", "5">>), custom |-> JStr(<<"b">>)]) }

LanguagesPool ==
    { Absent,
      Mk([value |-> JList(<<JStr(<<"a">>)>>)]),
      Mk([value |-> JList(<<JNull, JStr(<<"a">>), JNull>>)]) }

\* a field outside the traits, at and below the top level
ExtraPool ==
    { Absent, JInt(2),
      JStr(<<"+", "2">>),
      JStr(<<" ", "+", "0", "7", " ">>),
      JStr(<<"+", "5", "a">>),
      JStr(<<"+", "sup2">>),
      JList(<<JStr(<<"+", "2">>), Mk([y |-> JStr(<<"+", "3">>), z |-> JStr(<<"a">>)])>>) }

\* documents that carry system.traits
TraitDocs(main, shared) ==
    { Mk([type |-> ty, x |-> x,
          system |-> Mk([traits |-> Mk([eres |-> IF main = "eres" THEN m ELSE Absent,
                                        di |-> IF main = "di" THEN m ELSE Absent,
                                        dv |-> sh, languages |-> lg])])]) :
        ty \in {NPC}, x \in ExtraPool, m \in TraitPool,
        sh \in shared, lg \in LanguagesPool }

\* documents without a traits dict
PlainDocs ==
    { Mk([type |-> ty, x |-> x, system |-> sys]) :
        ty \in {NPC, LOOT, Absent}, x \in ExtraPool,
        sys \in {Absent, JStr(<<"+", "4">>), Mk([traits |-> JStr(<<"+", "4">>)]),
                 Mk([attributes |-> Mk([hp |-> JStr(<<"+", "9">>)])])} }

ResistDocs == TraitDocs("eres", SmallTraitPool) \cup PlainDocs
PackagesDocs == TraitDocs("di", SmallTraitPool) \cup PlainDocs
\* the documents the numeric-string pass alone is run on
NumericDocs == TraitDocs("eres", {Absent}) \cup PlainDocs

----------------------------------------------------------------------------
(* Idle values of the state each specification does not use *)

FileIdle ==
    /\ input = <<>> /\ pos = 0 /\ output = <<>> /\ only_npc = FALSE
    /\ patched = 0 /\ report = <<>>

MainIdle ==
    /\ pc = "idle" /\ fs = <<>> /\ opts = <<>> /\ todo = <<>> /\ status = -1

----------------------------------------------------------------------------
(* Shape Normalizer: one document repaired MaxCalls times *)

InitNorm ==
    /\ tool \in {"resist", "packages", "numeric"}
    /\ doc \in (CASE tool = "resist" -> ResistDocs
                  [] tool = "packages" -> PackagesDocs
                  [] tool = "numeric" -> NumericDocs)
    /\ before = doc
    /\ mutated = FALSE /\ nchanges = 0 /\ raised = FALSE /\ calls = 0
    /\ FileIdle /\ MainIdle

\* the outcome r of one call is recorded; a call that raises leaves no
\* document to its caller (the exception unwinds out of the tool)
Record(r) ==
    /\ before' = doc
    /\ raised' = r.raised
    /\ doc' = IF r.raised THEN doc ELSE r.doc
    /\ mutated' = IF r.raised THEN FALSE ELSE r.changed
    /\ nchanges' = IF r.raised THEN 0 ELSE r.n
    /\ calls' = calls + 1
    /\ UNCHANGED <<tool, fvars, mvars>>

RepairActorDoc ==
    /\ tool = "resist" /\ ~raised /\ calls < MaxCalls
    /\ Record(repair_actor_doc(doc))

RepairDoc ==
    /\ tool = "packages" /\ ~raised /\ calls < MaxCalls
    /\ Record(repair_doc(doc))

\* the numeric-string pass on its own (resist tool, lines 48-74)
ConvertPlusNumberStrings ==
    /\ tool = "numeric" /\ ~raised /\ calls < MaxCalls
    /\ LET c == convert_plus_number_strings(doc)
       IN  Record([doc |-> c.v, changed |-> c.n > 0, n |-> c.n, raised |-> c.raised])

NextNorm == RepairActorDoc \/ RepairDoc \/ ConvertPlusNumberStrings

SpecNorm == InitNorm /\ [][NextNorm]_vars

----------------------------------------------------------------------------
(* Claims about the Shape Normalizer *)

\* C1: a second call of repair_actor_doc / repair_doc on the output of the
\* first changes nothing and reports mutated = false, also when a trait list
\* or a split trait string holds a plus-number token.
C1_Idempotent ==
    (tool \in {"resist", "packages"} /\ calls >= 2 /\ ~raised)
        => (doc = before /\ ~mutated)

\* the document's type is one the trait repair is aimed at
TypeIs(d, ty) == "type" \in DOMAIN d.d /\ d.d["type"] = ty
Targeted(d) == TypeIs(d, CHARACTER) \/ TypeIs(d, NPC)

\* a list of non-empty strings
IsTagList(v) ==
    IsList(v) /\ \A i \in 1..Len(v.l) : IsStr(v.l[i]) /\ Strip(v.l[i].s) # <<>>

ConfiguredKeys == IF tool = "resist" THEN ResistKeys ELSE TRAIT_KEYS

TraitEntryOk(e) ==
    /\ IsDict(e)
    /\ "value" \in DOMAIN e.d /\ IsTagList(e.d["value"])
    /\ \A f \in {"custom", "customTotal"} : f \in DOMAIN e.d => IsTagList(e.d[f])

\* C5: at the end of the whole repair of a character/npc document, every
\* configured trait entry's value (and custom, customTotal when present) is
\* a sequence of non-empty strings.
C5_TraitValueInvariant ==
    (tool \in {"resist", "packages"} /\ calls >= 1 /\ ~raised
        /\ Targeted(doc) /\ IsDict(get(doc, <<"system", "traits">>)))
        => \A i \in 1..Len(ConfiguredKeys) :
              LET k == ConfiguredKeys[i]
                  traits == get(doc, <<"system", "traits">>)
              IN  k \in DOMAIN traits.d => TraitEntryOk(traits.d[k])

\* the claim's pattern, read off the spec: after trimming, a '+' followed by
\* one or more decimal digits and nothing else
MatchesPlusDigits(s) ==
    LET st == Strip(s)
    IN  Len(st) >= 2 /\ st[1] = "+" /\ \A i \in 2..Len(st) : st[i] \in AsciiDigit

RECURSIVE Pow10(_)
Pow10(e) == IF e = 0 THEN 1 ELSE 10 * Pow10(e - 1)

\* the number a digit string denotes, most significant digit first
RECURSIVE Denotes(_)
Denotes(ds) ==
    IF ds = <<>> THEN 0
    ELSE DigitVal(Head(ds)) * Pow10(Len(ds) - 1) + Denotes(Tail(ds))

RECURSIVE NoPlusDigits(_)
NoPlusDigits(v) ==
    CASE IsStr(v) -> ~MatchesPlusDigits(v.s)
      [] IsDict(v) -> \A k \in DOMAIN v.d : NoPlusDigits(v.d[k])
      [] IsList(v) -> \A i \in 1..Len(v.l) : NoPlusDigits(v.l[i])
      [] OTHER -> TRUE

\* b is a with every plus-number string replaced in place by its integer
RECURSIVE ConvertedInPlace(_, _)
ConvertedInPlace(a, b) ==
    CASE IsStr(a) ->
            IF MatchesPlusDigits(a.s) THEN b = JInt(Denotes(Tail(Strip(a.s)))) ELSE b = a
      [] IsDict(a) ->
            /\ IsDict(b) /\ DOMAIN b.d = DOMAIN a.d
            /\ \A k \in DOMAIN a.d : ConvertedInPlace(a.d[k], b.d[k])
      [] IsList(a) ->
            /\ IsList(b) /\ Len(b.l) = Len(a.l)
            /\ \A i \in 1..Len(a.l) : ConvertedInPlace(a.l[i], b.l[i])
      [] OTHER -> b = a

\* C6: after a repair no string anywhere in the document is a plus-number;
\* the numeric pass replaces each one it is given, in place, by the integer
\* of the same digit value and leaves every other scalar alone.
C6_NumericNormalization ==
    (calls >= 1 /\ ~raised) =>
        /\ NoPlusDigits(doc)
        /\ tool = "numeric" => ConvertedInPlace(before, doc)

\* a nested plus-number (inside a list inside the document) was converted
C6_Witness ==
    /\ tool = "numeric" /\ calls = 1 /\ ~raised /\ mutated
    /\ "x" \in DOMAIN before.d /\ IsList(before.d["x"])
    /\ ~NoPlusDigits(before.d["x"])
    /\ NoPlusDigits(doc)

\* C12: no exception comes out of a per-document repair function, whatever
\* the document (a mapping) holds: every call made so far has returned.
C12_NoExceptionPropagates == calls >= 1 => ~raised

----------------------------------------------------------------------------
(* Identifier Deduplicator: one actor document repaired MaxCalls times *)

\* the largest number of items of an actor
MaxItems == 3

Item(id, tag, acts) ==
    Mk(("_id" :> id) @@ [system |-> Mk([tag |-> tag, actions |-> acts])])

Action(id, tag) == Mk(("_id" :> id) @@ [tag |-> tag])

ItemPool ==
    { Item(Absent, JStr(<<"a">>), Absent),
      Item(JStr(<<"x">>), JStr(<<"a">>), Absent),
      Item(JStr(<<"x", " ">>), JStr(<<"a">>), Absent),
      Item(JStr(<<"y">>), JStr(<<" ", "a">>), Absent),
      Item(Absent, JStr(<<"a", "_", "x">>), Absent),
      Item(JStr(<<"z">>), JStr(<<"b">>),
           JList(<<Action(JStr(<<"k">>), JStr(<<"a">>)), Action(Absent, JStr(<<"c">>))>>)),
      Item(Absent, JStr(<<"c">>),
           JList(<<Action(JStr(<<"k", " ">>), JStr(<<"c">>)), JNull,
                   Action(Absent, JStr(<<"c", "_", "a", "c", "t", "_", "k">>))>>)),
      Mk([name |-> JStr(<<"a">>), system |-> JStr(<<"a">>)]) }

\* resource maps; their keys are text, as the tags they are compared with
ResourcesPool ==
    { Absent,
      JDict([k \in {<<"a">>, <<" ", "a">>, <<"b">>} |-> JInt(1)]),
      JDict([k \in {<<"a", "_", "x">>, <<"d">>} |-> JInt(2)]) }

ItemLists == UNION { [1..n -> ItemPool] : n \in 0..MaxItems }

ActorDocs ==
    { Mk([type |-> NPC, items |-> JList(its), system |-> Mk([resources |-> res])]) :
        its \in ItemLists, res \in ResourcesPool }

InitDedup ==
    /\ tool = "eidolon"
    /\ doc \in ActorDocs
    /\ before = doc
    /\ mutated = FALSE /\ nchanges = 0 /\ raised = FALSE /\ calls = 0
    /\ FileIdle /\ MainIdle

FixActorIdentifiersAndResources ==
    /\ tool = "eidolon" /\ calls < MaxCalls
    /\ Record(fix_actor_identifiers_and_resources(doc))

NextDedup == FixActorIdentifiersAndResources

SpecDedup == InitDedup /\ [][NextDedup]_vars

\* the tags the tool reads off the items / the actions of a document
ItemTagAt(d, i) ==
    IF IsDict(d.d["items"].l[i]) THEN get_item_tag(d.d["items"].l[i]) ELSE JNull

ActionTagAt(d, i, j) ==
    LET act == actions_of(d.d["items"].l[i])[j]
    IN  IF IsDict(act) THEN get_action_tag(act) ELSE JNull

ItemIdx(d) == 1..Len(d.d["items"].l)
ActionIdx(d) ==
    { <<i, j>> \in ItemIdx(d) \X (1..8) :
        IsDict(d.d["items"].l[i]) /\ j <= Len(actions_of(d.d["items"].l[i])) }

\* C2: a second call of fix_actor_identifiers_and_resources on the output of
\* the first renames nothing, deletes nothing and returns mutated = false.
C2_DedupIdempotent ==
    (tool = "eidolon" /\ calls >= 2) => (doc = before /\ ~mutated)

\* C3: after a call no two items share a tag and no two actions share a tag.
C3_TagUniqueness ==
    (tool = "eidolon" /\ calls >= 1) =>
        /\ \A i, k \in ItemIdx(doc) :
              (i # k /\ ItemTagAt(doc, i) # JNull)
                  => ItemTagAt(doc, i) # ItemTagAt(doc, k)
        /\ \A p, q \in ActionIdx(doc) :
              (p # q /\ ActionTagAt(doc, p[1], p[2]) # JNull)
                  => ActionTagAt(doc, p[1], p[2]) # ActionTagAt(doc, q[1], q[2])

ResourceKeys(d) ==
    IF IsDict(get_resources_dict(d)) THEN DOMAIN get_resources_dict(d).d ELSE {}

FinalItemTags(d) ==
    { ItemTagAt(d, i).s : i \in {k \in ItemIdx(d) : ItemTagAt(d, k) # JNull} }

\* C4: after a call no resource key equals the final tag of an item; the
\* call deleted exactly the keys equal to a final item tag and left every
\* other key with its value.
C4_ResourceTagDisjoint ==
    (tool = "eidolon" /\ calls >= 1) =>
        /\ ResourceKeys(doc) \cap FinalItemTags(doc) = {}
        /\ ResourceKeys(doc) = ResourceKeys(before) \ FinalItemTags(doc)
        /\ \A k \in ResourceKeys(doc) :
              get_resources_dict(doc).d[k] = get_resources_dict(before).d[k]

\* Pass 1 as seen from outside: item i of the input of the last call, the
\* same item of its output, and the tags claimed when the pass reaches it
ItemIn(i) == before.d["items"].l[i]
ItemOut(i) == doc.d["items"].l[i]
Tagged(i) == ItemTagAt(before, i) # JNull
TagIn(i) == ItemTagAt(before, i).s
SysField(item, f) ==
    IF IsDict(DGet(item.d, "system")) THEN DGet(item.d["system"].d, f) ELSE JNull
KeptTag(i) ==
    /\ SysField(ItemOut(i), "tag") = SysField(ItemIn(i), "tag")
    /\ SysField(ItemOut(i), "useCustomTag") = SysField(ItemIn(i), "useCustomTag")

\* what item k claimed: its tag when it kept it, else the tag it was given
ClaimOf(k) == IF KeptTag(k) THEN TagIn(k) ELSE SysField(ItemOut(k), "tag").s
ClaimedBefore(i) == { ClaimOf(k) : k \in {j \in 1..(i - 1) : Tagged(j)} }

\* <original tag>_<item _id>, or <original tag>_noid
IdPart(item) ==
    LET id == DGet(item.d, "_id")
    IN  IF IsStr(id) /\ Len(id.s) > 0 THEN id.s ELSE <<"n", "o", "i", "d">>
Candidate(i) == TagIn(i) \o <<"_">> \o IdPart(ItemIn(i))
Suffixed(cand, j) == cand \o <<"_">> \o ToStr(j)

\* the candidate, or the candidate with the smallest suffix _2, _3, ... that
\* is not claimed
Replacement(i) ==
    LET cl == ClaimedBefore(i)
        cand == Candidate(i)
    IN  IF cand \notin cl THEN cand
        ELSE Suffixed(cand, CHOOSE j \in 2..(Cardinality(cl) + 2) :
                              /\ Suffixed(cand, j) \notin cl
                              /\ \A k \in 2..(j - 1) : Suffixed(cand, k) \in cl)

\* C13: in pass 1 an item whose tag is not yet claimed keeps it; an item
\* whose tag is claimed gets <tag>_<_id> (or <tag>_noid), or that candidate
\* with the smallest free suffix _2, _3, ...; its useCustomTag becomes true;
\* the tag it gets is not in the claimed set.
C13_Pass1Renaming ==
    (tool = "eidolon" /\ calls >= 1) =>
        \A i \in ItemIdx(before) :
            Tagged(i) =>
                IF TagIn(i) \notin ClaimedBefore(i) THEN KeptTag(i)
                ELSE /\ SysField(ItemOut(i), "tag") = JStr(Replacement(i))
                     /\ SysField(ItemOut(i), "useCustomTag") = JBool(TRUE)
                     /\ Replacement(i) \notin ClaimedBefore(i)

\* a duplicate whose candidate was claimed too got the suffix _2
C13_Witness ==
    /\ tool = "eidolon" /\ calls = 1
    /\ \E i \in ItemIdx(before) :
          /\ Tagged(i) /\ TagIn(i) \in ClaimedBefore(i)
          /\ Candidate(i) \in ClaimedBefore(i)
          /\ SysField(ItemOut(i), "tag") = JStr(Suffixed(Candidate(i), 2))

\* item i's tag is the tag of no other item of the input document
UniqueInInput(i) ==
    \A k \in ItemIdx(before) : (k # i /\ Tagged(k)) => TagIn(k) # TagIn(i)

\* C14: an item is renamed only when it shares its tag with another item of
\* the input document; an item whose tag no other item of the input has
\* keeps its system.tag and useCustomTag, whatever the order of the items
\* and whatever tags are generated for other items.
C14_OnlySharedTagsRenamed ==
    (tool = "eidolon" /\ calls >= 1) =>
        \A i \in ItemIdx(before) : (Tagged(i) /\ UniqueInInput(i)) => KeptTag(i)

----------------------------------------------------------------------------
(* File streaming: process_db_file (resist, packages), process_file (eidolon) *)

(* A line of a file is [body, term].  term is its terminator: "LF", "CRLF",  *)
(* "CR", or "none" for a last line that has none.  body is the text before   *)
(* the terminator, [fmt, v]:                                                 *)
(*   fmt = "text"    : v = JStr(chars), characters that are not JSON         *)
(*   fmt = "compact" : the JSON text of v with no space after , and :        *)
(*   fmt = "spaced"  : the JSON text of v as json.dumps writes it            *)

\* the largest number of lines of a file
MaxLines == 2

Text(chars) == [fmt |-> "text", v |-> JStr(chars)]
Compact(v) == [fmt |-> "compact", v |-> v]
\* json.dumps(doc, ensure_ascii=False): ", " and ": " separators
json_dumps(v) == [fmt |-> "spaced", v |-> v]

\* the JSON text of v holds a separator, so compact and spaced text differ
HasSeparator(v) ==
    \/ IsDict(v) /\ DOMAIN v.d # {}
    \/ IsList(v) /\ Len(v.l) >= 2

\* iterating the file opened with universal newlines: every terminator is
\* read as "\n"; a last line without one is read without
read_line(ln) == [body |-> ln.body, term |-> IF ln.term = "none" THEN "none" ELSE "LF"]

\* not raw.strip(): only whitespace before the terminator
is_blank(body) == body.fmt = "text" /\ Strip(body.v.s) = <<>>
\* json.loads(raw) raises JSONDecodeError
is_unparseable(body) == body.fmt = "text"
\* json.loads(raw)
json_loads(body) == body.v

\* lines 202-214: the line is written through as it was read
passes_through(line) ==
    \/ is_blank(line.body)
    \/ is_unparseable(line.body)
    \/ ~IsDict(json_loads(line.body))

\* w.write(json.dumps(doc, ensure_ascii=False) + "\n")
dumped_line(d) == [body |-> json_dumps(d), term |-> "LF"]

LineDocs ==
    { Mk([type |-> LOOT, x |-> JStr(<<"+", "2">>)]),
      Mk([type |-> NPC,
          system |-> Mk([traits |-> Mk([eres |-> Mk([value |-> JStr(<<"a", ";", "b">>)]),
                                        di |-> Mk([custom |-> JStr(<<"a">>)])])])]),
      Mk([type |-> NPC,
          system |-> Mk([traits |-> Mk([eres |-> Mk([value |-> JList(<<>>)]),
                                        dr |-> Mk([value |-> JList(<<>>)]),
                                        dv |-> Mk([value |-> JList(<<>>)])])])]),
      Mk([type |-> CHARACTER,
          items |-> JList(<<Item(Absent, JStr(<<"a">>), Absent),
                            Item(JStr(<<"x">>), JStr(<<"a">>), Absent)>>),
          x |-> JStr(<<"+", "2">>)]),
      Mk([type |-> CHARACTER, x |-> JStr(<<"+", "sup2">>)]) }

\* compact text is listed only for values whose text holds a separator
Bodies ==
    { Text(<<>>), Text(<<" ">>), Text(<<"a">>) }
    \cup { Compact(d) : d \in {x \in LineDocs \cup {JList(<<JInt(1), JInt(2)>>)} :
                                  HasSeparator(x)} }
    \cup { json_dumps(d) : d \in {x \in LineDocs : DGet(x.d, "type") = NPC} }

\* a file in one line-ending style: every line ends with eol, but that the
\* last line, when it holds any text, may have no terminator
FilesOf(n) ==
    { [i \in 1..n |-> [body |-> bs[i],
                       term |-> IF i = n /\ ~final THEN "none" ELSE eol]] :
        bs \in [1..n -> Bodies], eol \in {"LF", "CRLF", "CR"}, final \in BOOLEAN }

Files ==
    { f \in UNION { FilesOf(n) : n \in 0..MaxLines } :
        \A i \in 1..Len(f) : f[i].term = "none" => f[i].body # Text(<<>>) }

InitFile ==
    /\ tool \in {"resist", "packages", "eidolon"}
    /\ only_npc \in (IF tool = "packages" THEN BOOLEAN ELSE {FALSE})
    /\ input \in Files
    /\ pos = 0 /\ output = <<>> /\ patched = 0 /\ report = <<>>
    /\ doc = JNull /\ before = JNull /\ mutated = FALSE /\ nchanges = 0
    /\ raised = FALSE /\ calls = 0
    /\ MainIdle

\* as Emit, but a blank line is skipped without being written
Emit_skipping_blank(out_line, changed) ==
    /\ output' = IF is_blank(out_line.body) THEN output ELSE Append(output, out_line)
    /\ pos' = pos + 1
    /\ patched' = IF changed THEN patched + 1 ELSE patched
    /\ report' = IF changed THEN Append(report, pos + 1) ELSE report
    /\ UNCHANGED <<tool, doc, before, mutated, nchanges, raised, calls, input,
                   only_npc, mvars>>

\* the loop body's effect: the line is written; a changed document is
\* counted and reported under its line number
Emit(out_line, changed) ==
    /\ output' = Append(output, out_line)
    /\ pos' = pos + 1
    /\ patched' = IF changed THEN patched + 1 ELSE patched
    /\ report' = IF changed THEN Append(report, pos + 1) ELSE report
    /\ UNCHANGED <<tool, doc, before, mutated, nchanges, raised, calls, input,
                   only_npc, mvars>>

\* an exception leaves the loop and the tool; nothing more is written
Abort ==
    /\ raised' = TRUE
    /\ UNCHANGED <<tool, doc, before, mutated, nchanges, calls, fvars, mvars>>

\* the written line and the flag for a repaired document, r the repair's result
EmitRepaired(r) == IF r.raised THEN Abort ELSE Emit(dumped_line(r.doc), r.changed)

\* one iteration of the loop of process_db_file, resist tool (lines 200-225)
ProcessLineResist ==
    /\ tool = "resist" /\ ~raised /\ pos < Len(input)
    /\ LET line == read_line(input[pos + 1])
       IN  IF passes_through(line) THEN Emit(line, FALSE)
           ELSE LET d == json_loads(line.body)
                IN  IF should_patch_doc(d) THEN EmitRepaired(repair_actor_doc(d))
                    ELSE Emit(dumped_line(d), FALSE)

\* one iteration of the loop of process_db_file, packages tool (lines 171-201)
ProcessLinePackages ==
    /\ tool = "packages" /\ ~raised /\ pos < Len(input)
    /\ LET line == read_line(input[pos + 1])
       IN  IF passes_through(line) THEN Emit(line, FALSE)
           ELSE LET d == json_loads(line.body)
                IN  IF only_npc /\ DGet(d.d, "type") # NPC
                    THEN Emit(dumped_line(d), FALSE)
                    ELSE EmitRepaired(repair_doc(d))

\* one iteration of the loop of process_file, eidolon tool (lines 178-203)
ProcessLineEidolon ==
    /\ tool = "eidolon" /\ ~raised /\ pos < Len(input)
    /\ LET line == read_line(input[pos + 1])
       IN  IF passes_through(line) THEN Emit(line, FALSE)
           ELSE LET d == json_loads(line.body)
                IN  IF is_actor_doc(d)
                    THEN EmitRepaired(fix_actor_identifiers_and_resources(d))
                    ELSE Emit(dumped_line(d), FALSE)

NextFile == ProcessLineResist \/ ProcessLinePackages \/ ProcessLineEidolon

SpecFile == InitFile /\ [][NextFile]_vars

\* input line i parsed to a mapping and its output line has been written
WrittenDoc(i) ==
    /\ i <= Len(output)
    /\ ~passes_through(read_line(input[i]))

\* C7: only character/npc documents undergo trait repair, and every mapping
\* of any other type (or none) undergoes the numeric pass: its output line
\* is the document with each plus-number string converted, nothing else.
C7_NumericPassForAllTypes ==
    tool \in {"resist", "packages"} =>
        \A i \in 1..Len(output) :
            (WrittenDoc(i) /\ ~Targeted(input[i].body.v))
                => ConvertedInPlace(input[i].body.v, output[i].body.v)

\* the tool's filter lets the document through to its repair function
FilteredIn(d) ==
    IF tool = "resist" THEN Targeted(d) ELSE (~only_npc \/ TypeIs(d, NPC))

\* C7, amended: a mapping is repaired (trait repair and numeric pass
\* together) only when the tool's filter lets it through: type character or
\* npc in the resist tool; every mapping in the packages tool, type npc only
\* under --only-npc.  A mapping the filter lets through has no plus-number
\* string left in its output line; any other mapping is written as the same
\* document, its plus-number strings still strings.
C7_NumericPassBehindFilter ==
    tool \in {"resist", "packages"} =>
        \A i \in 1..Len(output) :
            WrittenDoc(i) =>
                IF FilteredIn(input[i].body.v)
                THEN NoPlusDigits(output[i].body.v)
                ELSE output[i].body.v = input[i].body.v

\* both cases at once: a loot document written with its "+2" still a
\* string, a character or npc document written with none left
C7_Witness ==
    /\ tool = "resist" /\ Len(output) = 2
    /\ \E i \in 1..2 :
          /\ WrittenDoc(i) /\ ~FilteredIn(input[i].body.v)
          /\ ~NoPlusDigits(output[i].body.v)
    /\ \E i \in 1..2 :
          /\ WrittenDoc(i) /\ FilteredIn(input[i].body.v)
          /\ ~NoPlusDigits(input[i].body.v) /\ NoPlusDigits(output[i].body.v)

\* no report line was collected for line i: its document was not mutated
Unmutated(i) == \A k \in 1..Len(report) : report[k] # i

IsMappingLine(i) == input[i].body.fmt # "text" /\ IsDict(input[i].body.v)

C9_NewlineTerminated ==
    \A i \in 1..Len(output) : output[i].term = "LF"

----------------------------------------------------------------------------
(* The repair functions on their own and inside the file loop *)

\* a document is repaired MaxCalls times by its tool's repair function, or
\* a file of at most MaxLines lines is processed
InitRepair == InitNorm \/ InitDedup \/ InitFile

NextRepair == (IsDict(doc) /\ (NextNorm \/ NextDedup)) \/ NextFile

SpecRepair == InitRepair /\ [][NextRepair]_vars

\* the documents read from and written to line i of a file
DocIn(i) == json_loads(read_line(input[i]).body)
DocOut(i) == json_loads(output[i].body)
Reported(i) == \E k \in 1..Len(report) : report[k] = i

----------------------------------------------------------------------------
(* main() of the three tools *)

(* A path is [dir, name, ext]; name = "" is the folder itself.  fs maps the  *)
(* paths that exist to what they hold: "dir", "source" (a pack file as       *)
(* found), "copy" (a backup of a source), "output", "report".                *)

\* TARGET_FILES of the resist tool (lines 13-19)
TARGET_FILES ==
    {"pf-companions.db", "pf-eidolon-forms.db", "pf-familiars.db", "pf-merchants.db",
     "pf-traps-and-haunts.db"}
\* TARGET_FILE of the eidolon tool (line 11)
TARGET_FILE == "pf-eidolon-forms.db"

\* the *.db files an input folder may hold, in sorted() order
FileOrder == <<"other.db", "pf-companions.db", "pf-eidolon-forms.db">>

Folder(dir) == [dir |-> dir, name |-> "", ext |-> ""]
PathOf(dir, name) == [dir |-> dir, name |-> name, ext |-> ""]
\* outp.with_suffix(outp.suffix + ".bak")
BakOf(dir, name) == [dir |-> dir, name |-> name, ext |-> ".bak"]
\* out_dir / "_reports" / (inp.name + ".repair_report.txt"), and the
\* eidolon tool's ".identifiers_report.txt"
ReportDir(dir) == [dir |-> dir, name |-> "_reports", ext |-> ""]
ReportOf(dir, name) ==
    [dir |-> dir, name |-> "_reports/" \o name,
     ext |-> IF tool = "eidolon" THEN ".identifiers_report.txt" ELSE ".repair_report.txt"]

Exists(p) == p \in DOMAIN fs
IsDir(p) == Exists(p) /\ fs[p] = "dir"

\* the file systems a run may start in: the input folder missing, a plain
\* file, or a folder holding some pack files; an earlier run's output may be
\* there
StartFs(in_kind, present, old_out) ==
    LET in == IF in_kind = "missing" THEN <<>>
              ELSE Folder("packages") :> (IF in_kind = "dir" THEN "dir" ELSE "source")
        files == IF in_kind = "dir"
                 THEN [p \in {PathOf("packages", f) : f \in present} |-> "source"]
                 ELSE <<>>
        out == IF old_out
               THEN (Folder("packages_processed") :> "dir")
                    @@ (PathOf("packages_processed", TARGET_FILE) :> "output")
               ELSE <<>>
    IN  in @@ files @@ out

InitMain ==
    /\ tool \in {"resist", "packages", "eidolon"}
    /\ \E in_kind \in {"missing", "file", "dir"}, present \in SUBSET Range(FileOrder),
          old_out \in BOOLEAN :
          fs = StartFs(in_kind, present, old_out)
    /\ opts \in [packages : {"packages"},
                 packages_processed : {"packages_processed", "packages"},
                 backup : BOOLEAN, reports : BOOLEAN, fs0 : {fs}]
    /\ pc = "start" /\ todo = <<>> /\ status = -1
    /\ doc = JNull /\ before = JNull /\ mutated = FALSE /\ nchanges = 0
    /\ raised = FALSE /\ calls = 0
    /\ FileIdle

Return(code) ==
    /\ pc' = "done" /\ status' = code
    /\ UNCHANGED <<fs, opts, todo, nvars, fvars>>

Begin(targets) ==
    /\ pc' = "processing" /\ todo' = targets
    /\ UNCHANGED <<fs, opts, status, nvars, fvars>>

Present(f) == Exists(PathOf(opts.packages, f))
IsTarget(f) == f \in TARGET_FILES

\* as MainResist, but without the test of the input folder
MainResist_unchecked_folder ==
    /\ tool = "resist" /\ pc = "start"
    /\ LET targets == SelectSeq(SelectSeq(FileOrder, Present), IsTarget)
       IN  IF targets = <<>> THEN Return(0) ELSE Begin(targets)

\* main() of the resist tool up to its loop (lines 250-270)
MainResist ==
    /\ tool = "resist" /\ pc = "start"
    /\ IF ~IsDir(Folder(opts.packages)) THEN Return(2)
       ELSE LET targets == SelectSeq(SelectSeq(FileOrder, Present), IsTarget)
            IN  IF targets = <<>> THEN Return(0) ELSE Begin(targets)

\* main() of the packages tool up to its loop (lines 235-251)
MainPackages ==
    /\ tool = "packages" /\ pc = "start"
    /\ IF ~IsDir(Folder(opts.packages)) THEN Return(2)
       ELSE LET db_files == SelectSeq(FileOrder, Present)
            IN  IF db_files = <<>> THEN Return(0) ELSE Begin(db_files)

\* main() of the eidolon tool up to process_file (lines 227-237)
MainEidolon ==
    /\ tool = "eidolon" /\ pc = "start"
    /\ IF ~Exists(PathOf(opts.packages, TARGET_FILE)) THEN Return(2)
       ELSE IF Exists(PathOf(opts.packages_processed, TARGET_FILE)) THEN Return(2)
       ELSE Begin(<<TARGET_FILE>>)

\* what process_db_file / process_file leave on disk for one file: the
\* output folder, the backup, the output file (opened "w", so emptied when
\* it is the file being read) and the report
processed(f) ==
    LET out == opts.packages_processed
        f1 == fs @@ (Folder(out) :> "dir")
        f2 == IF opts.backup THEN (BakOf(out, f) :> "copy") @@ f1 ELSE f1
        f3 == (PathOf(out, f) :> "output") @@ f2
    IN  IF opts.reports
        THEN (ReportOf(out, f) :> "report") @@ ((ReportDir(out) :> "dir") @@ f3)
        ELSE f3

\* the file is opened for writing while it is being read: the reader finds
\* it empty, and the packages tool's "return patched, line_no" (line 208)
\* then reads line_no unbound
reads_nothing == opts.packages_processed = opts.packages

\* one call of process_db_file / process_file from main's loop; the
\* UnboundLocalError of the packages tool unwinds out of main (status 1)
ProcessFile ==
    /\ pc = "processing" /\ todo # <<>>
    /\ fs' = processed(Head(todo))
    /\ IF tool = "packages" /\ reads_nothing
       THEN pc' = "done" /\ status' = 1 /\ todo' = todo
       ELSE todo' = Tail(todo) /\ UNCHANGED <<pc, status>>
    /\ UNCHANGED <<opts, nvars, fvars>>

\* the loop is over: the totals are printed and main returns 0
MainReturn ==
    /\ pc = "processing" /\ todo = <<>>
    /\ Return(0)

NextMain == MainResist \/ MainPackages \/ MainEidolon \/ ProcessFile \/ MainReturn

SpecMain == InitMain /\ [][NextMain]_vars

\* the run started without its input folder, or without a target file in it
MissingInput ==
    LET f0 == opts.fs0
        has(f) == PathOf(opts.packages, f) \in DOMAIN f0
        folder == Folder(opts.packages) \in DOMAIN f0 /\ f0[Folder(opts.packages)] = "dir"
    IN  \/ ~folder
        \/ tool = "eidolon" /\ ~has(TARGET_FILE)
        \/ tool = "resist" /\ \A f \in TARGET_FILES : ~has(f)

\* C10: in each tool a missing input folder or target file ends the run with
\* a non-zero status, nothing having been created.
C10_MissingInputFatal ==
    (pc = "done" /\ MissingInput) => (status # 0 /\ fs = opts.fs0)

FolderAtStart ==
    /\ Folder(opts.packages) \in DOMAIN opts.fs0
    /\ opts.fs0[Folder(opts.packages)] = "dir"
AtStart(f) == PathOf(opts.packages, f) \in DOMAIN opts.fs0

\* C10, amended: a missing input folder ends the run of each tool, and a
\* missing target file the run of the eidolon tool, with status 2 and nothing
\* created.  The resist tool whose folder holds none of its target files,
\* and the packages tool whose folder holds no .db file, report that and end
\* with status 0, nothing created.
C10_MissingInputOutcome ==
    pc = "done" =>
        /\ (~FolderAtStart \/ (tool = "eidolon" /\ ~AtStart(TARGET_FILE)))
              => (status = 2 /\ fs = opts.fs0)
        /\ (FolderAtStart /\ tool = "resist" /\ \A f \in TARGET_FILES : ~AtStart(f))
              => (status = 0 /\ fs = opts.fs0)
        /\ (FolderAtStart /\ tool = "packages"
               /\ \A i \in 1..Len(FileOrder) : ~AtStart(FileOrder[i]))
              => (status = 0 /\ fs = opts.fs0)

\* the resist tool ended in a folder that holds a .db file but none of its
\* target files
C10_Witness ==
    /\ pc = "done" /\ tool = "resist" /\ FolderAtStart
    /\ AtStart("other.db") /\ \A f \in TARGET_FILES : ~AtStart(f)
    /\ status = 0

\* the pack files the input folder held when the run started
SourcesAtStart == {p \in DOMAIN opts.fs0 : opts.fs0[p] = "source"}

\* C11: whatever the input-folder and output-folder options, every input
\* file holds after the run what it held before it; the repaired records go
\* only to a different file.
C11_SourceNeverModified ==
    \A p \in SourcesAtStart : p \in DOMAIN fs /\ fs[p] = "source"

====
